---- MODULE Spec2Model ----
(***************************************************************************)
(* Model of security_scanner.py: the SecurityScanner analyzers             *)
(* (analyze_code, analyze_url, analyze_logs), the de-duplication of        *)
(* print_results and the three scan endpoints.  Text is modelled as        *)
(* sequences of one-character strings, and Python's re module by a         *)
(* backtracking matcher over the pattern shapes the rule tables use.       *)
(***************************************************************************)
EXTENDS Integers, Sequences, FiniteSets, TLC

VARIABLES patterns, pc, call, arg, response, get_count, result, raised,
          error, http, unique_vulnerabilities, frames

vars == <<patterns, pc, call, arg, response, get_count, result, raised,
          error, http, unique_vulnerabilities, frames>>

(***************************************************************************)
(* Bounds of the explored inputs.                                          *)
(***************************************************************************)
MaxLines == 2
MaxLogLen == 8
MaxFindings == 5

(***************************************************************************)
(* Characters and Python str helpers.                                      *)
(***************************************************************************)
UpperCase == <<"A","B","C","D","E","F","G","H","I","J","K","L","M",
               "N","O","P","Q","R","S","T","U","V","W","X","Y","Z">>

LowerCase == <<"a","b","c","d","e","f","g","h","i","j","k","l","m",
               "n","o","p","q","r","s","t","u","v","w","x","y","z">>

Digits == <<"0","1","2","3","4","5","6","7","8","9">>

LowerOf == [c \in {UpperCase[n] : n \in 1..26} |->
              LowerCase[CHOOSE n \in 1..26 : UpperCase[n] = c]]

\* str.lower() on one character
Lower(c) == IF c \in DOMAIN LowerOf THEN LowerOf[c] ELSE c

\* str.lower()
LowerStr(s) == [n \in 1..Len(s) |-> Lower(s[n])]

\* the characters \w matches
WordChars == {UpperCase[n] : n \in 1..26} \cup {LowerCase[n] : n \in 1..26}
             \cup {Digits[n] : n \in 1..10} \cup {"_"}

\* the characters \s matches
SpaceChars == {" ", "\t", "\n", "\r", "\f"}

MinOf(S) == CHOOSE x \in S : \A y \in S : x <= y

MaxOf(S) == CHOOSE x \in S : \A y \in S : x >= y

\* w occurs in s at index i, compared exactly
StartsAt(w, s, i) ==
    /\ i + Len(w) - 1 <= Len(s)
    /\ \A j \in 1..Len(w) : s[i + j - 1] = w[j]

\* `w in s`
Contains(s, w) == \E i \in 1..(Len(s) - Len(w) + 1) : StartsAt(w, s, i)

\* s.startswith(w)
StartsWith(s, w) == StartsAt(w, s, 1)

\* str(n) for n >= 0
RECURSIVE ToStr(_)
ToStr(n) ==
    IF n < 10 THEN <<Digits[n + 1]>>
    ELSE ToStr(n \div 10) \o <<Digits[(n % 10) + 1]>>

\* s.split('\n')
RECURSIVE Split(_)
Split(s) ==
    LET nl == {i \in 1..Len(s) : s[i] = "\n"} IN
    IF nl = {} THEN <<s>>
    ELSE LET i == MinOf(nl) IN
         <<SubSeq(s, 1, i - 1)>> \o Split(SubSeq(s, i + 1, Len(s)))

\* s.count('\n', 0, end): newlines among the first `end` characters
RECURSIVE CountNewlines(_, _)
CountNewlines(s, end) ==
    IF end <= 0 THEN 0
    ELSE CountNewlines(s, end - 1) + (IF s[end] = "\n" THEN 1 ELSE 0)

(***************************************************************************)
(* Regular expressions.  A pattern is a sequence of atoms:                 *)
(*   Lit(w)            the literal text w                                  *)
(*   Rep(cls,lo,hi,lz) lo..hi characters of class cls (hi = -1: no limit), *)
(*                     lazy when lz, greedy otherwise                      *)
(*   WordB             \b                                                  *)
(*   Alt(ws)           (?:w1|w2|...) of literal alternatives               *)
(* All matching is done with re.I.                                         *)
(***************************************************************************)
Lit(w) == [kind |-> "lit", w |-> w]

Rep(cls, lo, hi, lz) == [kind |-> "rep", cls |-> cls, lo |-> lo, hi |-> hi, lz |-> lz]

WordB == [kind |-> "wb"]

Alt(ws) == [kind |-> "alt", ws |-> ws]

\* `.` (no DOTALL), \s and [_-]
InClass(cls, c) ==
    CASE cls = "dot" -> c # "\n"
      [] cls = "space" -> c \in SpaceChars
      [] cls = "sep" -> c \in {"_", "-"}

\* literal w matches s at i, ignoring case
LitAt(w, s, i) ==
    /\ i + Len(w) - 1 <= Len(s)
    /\ \A j \in 1..Len(w) : Lower(s[i + j - 1]) = Lower(w[j])

\* \b at position i (between s[i-1] and s[i])
WordBoundary(s, i) ==
    LET before == i > 1 /\ s[i - 1] \in WordChars
        after  == i <= Len(s) /\ s[i] \in WordChars
    IN before # after

\* number of consecutive characters of class cls starting at s[i]
RECURSIVE RunLen(_, _, _)
RunLen(cls, s, i) ==
    IF i <= Len(s) /\ InClass(cls, s[i]) THEN 1 + RunLen(cls, s, i + 1) ELSE 0

\* The match of atoms k.. of re at position i of s that backtracking finds
\* first: the position after it, or 0 when there is none.
RECURSIVE MatchFrom(_, _, _, _)
MatchFrom(re, k, s, i) ==
    IF k > Len(re) THEN i
    ELSE LET a == re[k] IN
      CASE a.kind = "lit" ->
             IF LitAt(a.w, s, i) THEN MatchFrom(re, k + 1, s, i + Len(a.w)) ELSE 0
        [] a.kind = "wb" ->
             IF WordBoundary(s, i) THEN MatchFrom(re, k + 1, s, i) ELSE 0
        [] a.kind = "alt" ->
             LET ok == {n \in 1..Len(a.ws) :
                          /\ LitAt(a.ws[n], s, i)
                          /\ MatchFrom(re, k + 1, s, i + Len(a.ws[n])) # 0}
             IN IF ok = {} THEN 0
                ELSE MatchFrom(re, k + 1, s, i + Len(a.ws[MinOf(ok)]))
        [] a.kind = "rep" ->
             LET run == RunLen(a.cls, s, i)
                 top == IF a.hi = -1 \/ run < a.hi THEN run ELSE a.hi
                 ok  == {n \in a.lo..top : MatchFrom(re, k + 1, s, i + n) # 0}
             IN IF ok = {} THEN 0
                ELSE MatchFrom(re, k + 1, s,
                               i + (IF a.lz THEN MinOf(ok) ELSE MaxOf(ok)))

\* re.search(pattern, s, re.I) is not None
Search(re, s) == \E i \in 1..(Len(s) + 1) : MatchFrom(re, 1, s, i) # 0

\* re.finditer(pattern, s): the non-overlapping matches from position pos on,
\* left to right, each as [start, end) in 1-based positions
RECURSIVE Finditer(_, _, _)
Finditer(re, s, pos) ==
    LET starts == {i \in pos..(Len(s) + 1) : MatchFrom(re, 1, s, i) # 0} IN
    IF starts = {} THEN <<>>
    ELSE LET i == MinOf(starts)
             e == MatchFrom(re, 1, s, i)
         IN <<[start |-> i, end |-> e]>>
            \o Finditer(re, s, IF e = i THEN e + 1 ELSE e)

(***************************************************************************)
(* SecurityScanner.__init__: the rule table.                               *)
(***************************************************************************)
PatternTable ==
  [sql_injection |-> <<
     <<Lit(<<"S","E","L","E","C","T">>), Rep("dot", 0, -1, FALSE),
       Lit(<<"F","R","O","M">>), Rep("dot", 0, -1, FALSE),
       Lit(<<"W","H","E","R","E">>)>>,
     <<Lit(<<"I","N","S","E","R","T">>), Rep("space", 1, -1, FALSE),
       Lit(<<"I","N","T","O">>)>>,
     <<Lit(<<"U","P","D","A","T","E">>), Rep("dot", 0, -1, FALSE),
       Lit(<<"S","E","T">>)>>,
     <<Lit(<<"D","E","L","E","T","E">>), Rep("space", 1, -1, FALSE),
       Lit(<<"F","R","O","M">>)>>,
     <<Lit(<<"U","N","I","O","N">>), Rep("space", 1, -1, FALSE),
       Lit(<<"S","E","L","E","C","T">>)>> >>,
   xss |-> <<
     <<Lit(<<"<","s","c","r","i","p","t">>), Rep("dot", 0, -1, TRUE),
       Lit(<<">">>)>>,
     <<Lit(<<"j","a","v","a","s","c","r","i","p","t",":">>)>>,
     <<Lit(<<"o","n","e","r","r","o","r","=">>)>>,
     <<Lit(<<"o","n","l","o","a","d","=">>)>>,
     <<Lit(<<"e","v","a","l","(">>)>>,
     <<WordB,
       Alt(<< <<"d","o","c","u","m","e","n","t",".","w","r","i","t","e">>,
              <<"i","n","n","e","r","H","T","M","L">>,
              <<"o","u","t","e","r","H","T","M","L">>,
              <<"i","n","s","e","r","t","A","d","j","a","c","e","n","t","H","T","M","L">> >>),
       WordB>> >>,
   exposed_secrets |-> <<
     <<Lit(<<"a","p","i">>), Rep("sep", 0, 1, FALSE), Lit(<<"k","e","y">>)>>,
     <<Lit(<<"s","e","c","r","e","t">>), Rep("sep", 0, 1, FALSE),
       Lit(<<"k","e","y">>)>>,
     <<Lit(<<"p","a","s","s","w","o","r","d">>)>>,
     <<Lit(<<"a","w","s">>), Rep("sep", 0, 1, FALSE), Lit(<<"k","e","y">>)>>,
     <<Lit(<<"c","r","e","d","e","n","t","i","a","l","s">>)>> >>,
   insecure_configs |-> <<
     <<Lit(<<"d","e","b","u","g">>), Rep("space", 0, -1, FALSE), Lit(<<"=">>),
       Rep("space", 0, -1, FALSE), Lit(<<"t","r","u","e">>)>>,
     <<Lit(<<"A","L","L","O","W","_","A","L","L","_","O","R","I","G","I","N","S">>)>>,
     <<Lit(<<"J","W","T","_","S","E","C","R","E","T">>)>> >>]

(***************************************************************************)
(* SecurityScanner.analyze_code                                            *)
(***************************************************************************)
\* any(re.search(pattern, line, re.I) for pattern in pats)
AnyPattern(pats, line) == \E n \in 1..Len(pats) : Search(pats[n], line)

\* the mitigation keywords of a category: the finding is withheld when
\* line.lower() contains one of them
Keywords(cat) ==
    CASE cat = "sql_injection" ->
           {<<"p","a","r","a","m","e","t","e","r","i","z","e","d">>,
            <<"p","r","e","p","a","r","e">>}
      [] cat = "xss" ->
           {<<"e","s","c","a","p","e">>, <<"s","a","n","i","t","i","z","e">>}
      [] OTHER -> {}

\* NotMitigated with the keyword looked up in the line as written
NotMitigated_case_sensitive(cat, line) ==
    \A w \in Keywords(cat) : ~Contains(line, w)

\* the inner `if` of a pass: no mitigation keyword in line.lower()
NotMitigated(cat, line) ==
    \A w \in Keywords(cat) : ~Contains(LowerStr(line), w)

\* CodeLocation with the 0-based index of enumerate
CodeLocation_zero_based(line_number) ==
    <<"L","i","n","e"," ">> \o ToStr(line_number)

\* f'Line {line_number + 1}'
CodeLocation(line_number) == <<"L","i","n","e"," ">> \o ToStr(line_number + 1)

\* the dictionary appended for a category at a line
CodeFinding(cat, line_number) ==
    CASE cat = "sql_injection" ->
           [type |-> "SQL Injection", risk_level |-> "Critical",
            description |-> "Potential SQL injection vulnerability detected. Raw SQL queries found without proper parameterization.",
            location |-> CodeLocation(line_number),
            fix |-> "Use parameterized queries or an ORM to prevent SQL injection:\ncursor.execute(\"SELECT * FROM users WHERE id = %s\", (user_id,))"]
      [] cat = "xss" ->
           [type |-> "Cross-Site Scripting (XSS)", risk_level |-> "High",
            description |-> "Potential XSS vulnerability. Unescaped user input could be executed as JavaScript.",
            location |-> CodeLocation(line_number),
            fix |-> "Escape all user input before rendering:\nfrom html import escape\nescaped_content = escape(user_input)"]
      [] cat = "exposed_secrets" ->
           [type |-> "Exposed Secrets", risk_level |-> "Critical",
            description |-> "Potential exposed secrets or credentials in code.",
            location |-> CodeLocation(line_number),
            fix |-> "Move sensitive data to environment variables:\nimport os\napi_key = os.environ.get(\"API_KEY\")"]
      [] cat = "insecure_configs" ->
           [type |-> "Security Misconfiguration", risk_level |-> "High",
            description |-> "Potential security misconfiguration detected.",
            location |-> CodeLocation(line_number),
            fix |-> "Ensure proper security configurations in production:\nDEBUG = False\nALLOWED_HOSTS = [\"example.com\"]\nCORS_ORIGIN_WHITELIST = [\"https://trusted-site.com\"]"]

\* LineFindings with one finding for each pattern that matches
LineFindings_per_pattern(table, cat, line_number, line) ==
    IF NotMitigated(cat, line)
    THEN LET hits == {n \in 1..Len(table[cat]) : Search(table[cat][n], line)} IN
         [k \in 1..Cardinality(hits) |-> CodeFinding(cat, line_number)]
    ELSE <<>>

\* what one line contributes to the pass of a category
LineFindings(table, cat, line_number, line) ==
    IF AnyPattern(table[cat], line) /\ NotMitigated(cat, line)
    THEN <<CodeFinding(cat, line_number)>>
    ELSE <<>>

\* one `for line_number, line in enumerate(lines)` loop, from line_number on
RECURSIVE CategoryPass(_, _, _, _)
CategoryPass(table, cat, lines, line_number) ==
    IF line_number >= Len(lines) THEN <<>>
    ELSE LineFindings(table, cat, line_number, lines[line_number + 1])
         \o CategoryPass(table, cat, lines, line_number + 1)

\* the four passes in the order of the source
CategoryOrder == <<"sql_injection", "xss", "exposed_secrets", "insecure_configs">>

\* analyze_code with the XSS pass run before the SQL injection pass
analyze_code_xss_first(table, code) ==
    LET lines == Split(code) IN
    CategoryPass(table, CategoryOrder[2], lines, 0)
    \o CategoryPass(table, CategoryOrder[1], lines, 0)
    \o CategoryPass(table, CategoryOrder[3], lines, 0)
    \o CategoryPass(table, CategoryOrder[4], lines, 0)

analyze_code(table, code) ==
    LET lines == Split(code) IN
    CategoryPass(table, CategoryOrder[1], lines, 0)
    \o CategoryPass(table, CategoryOrder[2], lines, 0)
    \o CategoryPass(table, CategoryOrder[3], lines, 0)
    \o CategoryPass(table, CategoryOrder[4], lines, 0)

(***************************************************************************)
(* SecurityScanner.analyze_url                                             *)
(***************************************************************************)
\* validators.url(url), on the URLs explored: a scheme prefix http://,
\* https:// or ftp:// (the validator ignores its case) followed by a dotted
\* host name of letters, digits and hyphens
validators_url(url) ==
    \E p \in {<<"h","t","t","p",":","/","/">>,
              <<"h","t","t","p","s",":","/","/">>,
              <<"f","t","p",":","/","/">>} :
       /\ LitAt(p, url, 1)
       /\ LET host == SubSeq(url, Len(p) + 1, Len(url)) IN
          /\ Len(host) >= 3
          /\ \A n \in 1..Len(host) : host[n] \in (WordChars \ {"_"}) \cup {".", "-"}
          /\ host[1] \notin {".", "-"}
          /\ host[Len(host)] \notin {".", "-"}
          /\ \E n \in 2..(Len(host) - 1) : host[n] = "."

\* the exception classes requests.get raises here, each with its base class
ExcBase ==
    [SSLError |-> "ConnectionError", ConnectionError |-> "RequestException",
     Timeout |-> "RequestException", InvalidSchema |-> "RequestException",
     RequestException |-> "IOError"]

\* isinstance(e, cls), as an except clause tests it
RECURSIVE IsInstance(_, _)
IsInstance(exc, cls) ==
    \/ exc = cls
    \/ exc \in DOMAIN ExcBase /\ IsInstance(ExcBase[exc], cls)

\* the header names a server may send
ServerHeaderNames ==
    {<<"S","t","r","i","c","t","-","T","r","a","n","s","p","o","r","t","-","S","e","c","u","r","i","t","y">>,
     <<"X","-","C","o","n","t","e","n","t","-","T","y","p","e","-","O","p","t","i","o","n","s">>,
     <<"X","-","F","r","a","m","e","-","O","p","t","i","o","n","s">>,
     <<"x","-","f","r","a","m","e","-","o","p","t","i","o","n","s">>,
     <<"C","o","n","t","e","n","t","-","S","e","c","u","r","i","t","y","-","P","o","l","i","c","y">>,
     <<"S","e","r","v","e","r">>}

NoResponse == [kind |-> "none"]

\* what requests.get(url, timeout=10, verify=True) can do: return a response
\* with some headers, or raise; a scheme without a transport adapter raises
\* InvalidSchema before anything is sent
Outcomes(url) ==
    IF LitAt(<<"h","t","t","p",":","/","/">>, url, 1)
       \/ LitAt(<<"h","t","t","p","s",":","/","/">>, url, 1)
    THEN {[kind |-> "ok", headers |-> h] : h \in SUBSET ServerHeaderNames}
         \cup {[kind |-> "raise", exc |-> "SSLError", text |-> "certificate verify failed"],
               [kind |-> "raise", exc |-> "ConnectionError", text |-> "Connection refused"],
               [kind |-> "raise", exc |-> "ConnectionError", text |-> "Name or service not known"],
               [kind |-> "raise", exc |-> "Timeout", text |-> "Read timed out"]}
    ELSE {[kind |-> "raise", exc |-> "InvalidSchema", text |-> "No connection adapters were found"]}

\* the security_headers dictionary, in insertion order
security_headers ==
    <<[header |-> <<"S","t","r","i","c","t","-","T","r","a","n","s","p","o","r","t","-","S","e","c","u","r","i","t","y">>,
       message |-> "Missing HSTS header"],
      [header |-> <<"X","-","C","o","n","t","e","n","t","-","T","y","p","e","-","O","p","t","i","o","n","s">>,
       message |-> "Missing X-Content-Type-Options header"],
      [header |-> <<"X","-","F","r","a","m","e","-","O","p","t","i","o","n","s">>,
       message |-> "Missing X-Frame-Options header"],
      [header |-> <<"C","o","n","t","e","n","t","-","S","e","c","u","r","i","t","y","-","P","o","l","i","c","y">>,
       message |-> "Missing Content Security Policy"]>>

\* HeaderIn on a plain, case-sensitive dictionary
HeaderIn_case_sensitive(header, headers) == header \in headers

\* `header in headers` on the response's case-insensitive header dictionary
HeaderIn(header, headers) ==
    \E k \in headers : LowerStr(k) = LowerStr(header)

\* f'Add the {header} header to your server responses'
HeaderFix(header) ==
    <<"A","d","d"," ","t","h","e"," ">> \o header
    \o <<" ","h","e","a","d","e","r"," ","t","o"," ","y","o","u","r"," ","s","e","r","v","e","r"," ","r","e","s","p","o","n","s","e","s">>

\* the `for header, message in security_headers.items()` loop, from entry n on
RECURSIVE HeaderFindings(_, _)
HeaderFindings(headers, n) ==
    IF n > Len(security_headers) THEN <<>>
    ELSE (IF ~HeaderIn(security_headers[n].header, headers)
          THEN <<[type |-> "Missing Security Headers", risk_level |-> "Medium",
                  description |-> security_headers[n].message,
                  fix |-> HeaderFix(security_headers[n].header)]>>
          ELSE <<>>)
         \o HeaderFindings(headers, n + 1)

\* the `if url.startswith('http://')` block
ProtocolFindings(url) ==
    IF StartsWith(url, <<"h","t","t","p",":","/","/">>)
    THEN <<[type |-> "Insecure Protocol", risk_level |-> "High",
            description |-> "Website is using HTTP instead of HTTPS",
            fix |-> "Implement HTTPS using a valid SSL/TLS certificate"]>>
    ELSE <<>>

\* ExceptClause with the RequestException clause written first
ExceptClause_base_first(exc) ==
    IF IsInstance(exc, "RequestException") THEN "RequestException"
    ELSE IF IsInstance(exc, "SSLError") THEN "SSLError"
    ELSE "none"

\* the except clause that handles an exception raised in the try block: the
\* clauses are tried in the order written, and an exception none of them
\* names leaves analyze_url
ExceptClause(exc) ==
    IF IsInstance(exc, "SSLError") THEN "SSLError"
    ELSE IF IsInstance(exc, "RequestException") THEN "RequestException"
    ELSE "none"

\* what the handling clause appends
ExceptFindings(exc, text) ==
    CASE ExceptClause(exc) = "SSLError" ->
           <<[type |-> "SSL/TLS Error", risk_level |-> "Critical",
              description |-> "SSL/TLS certificate validation failed",
              fix |-> "Ensure a valid SSL certificate is properly installed"]>>
      [] ExceptClause(exc) = "RequestException" ->
           <<[type |-> "Connection Error", risk_level |-> "Low",
              description |-> <<"Error connecting to URL: ", text>>]>>
      [] OTHER -> <<>>

\* analyze_url with the request issued before the URL is validated
analyze_url_get_first(url, r) ==
    [vulnerabilities |->
        IF ~validators_url(url)
        THEN <<[type |-> "Invalid URL", risk_level |-> "Low",
                description |-> "The provided URL is not valid."]>>
        ELSE IF r.kind = "ok"
        THEN HeaderFindings(r.headers, 1) \o ProtocolFindings(url)
        ELSE ExceptFindings(r.exc, r.text),
     gets |-> 1, response |-> r, raised |-> "none"]

\* analyze_url given what requests.get does when it is called: the returned
\* list, the number of calls of requests.get, and the exception that leaves
\* the call ("none": it returns)
analyze_url(url, r) ==
    IF ~validators_url(url)
    THEN [vulnerabilities |->
            <<[type |-> "Invalid URL", risk_level |-> "Low",
               description |-> "The provided URL is not valid."]>>,
          gets |-> 0, response |-> NoResponse, raised |-> "none"]
    ELSE [vulnerabilities |->
            IF r.kind = "ok"
            THEN HeaderFindings(r.headers, 1) \o ProtocolFindings(url)
            ELSE ExceptFindings(r.exc, r.text),
          gets |-> 1, response |-> r,
          raised |-> IF r.kind = "raise" /\ ExceptClause(r.exc) = "none"
                     THEN r.exc ELSE "none"]

(***************************************************************************)
(* SecurityScanner.analyze_logs                                            *)
(***************************************************************************)
\* TraversalPattern with greedy repetitions
TraversalPattern_greedy ==
    <<Lit(<<".", ".">>), Rep("dot", 0, -1, FALSE),
      Lit(<<".", ".">>), Rep("dot", 0, -1, FALSE)>>

\* r'(?i)\.\..*?\.\..*?'
TraversalPattern ==
    <<Lit(<<".", ".">>), Rep("dot", 0, -1, TRUE),
      Lit(<<".", ".">>), Rep("dot", 0, -1, TRUE)>>

\* MatchLine without the + 1
MatchLine_zero_based(logs, m) == CountNewlines(logs, m.start - 1)

\* logs.count('\n', 0, match.start()) + 1
MatchLine(logs, m) == CountNewlines(logs, m.start - 1) + 1

\* f"Line {...}: {match.group()}"
LogLocation(logs, m) ==
    <<"L","i","n","e"," ">> \o ToStr(MatchLine(logs, m)) \o <<":", " ">>
    \o SubSeq(logs, m.start, m.end - 1)

analyze_logs(logs) ==
    LET matches == Finditer(TraversalPattern, logs, 1) IN
    [n \in 1..Len(matches) |->
       [type |-> "Directory Traversal", risk_level |-> "High",
        description |-> "Suspicious pattern detected in logs indicating potential directory traversal attack.",
        fix |-> "Implement input validation and WAF rules",
        location |-> LogLocation(logs, matches[n])]]

(***************************************************************************)
(* SecurityScanner.print_results: the removal of duplicates                *)
(***************************************************************************)
\* the loop with nothing ever found in seen_types
DedupLoop_nothing_seen(vulnerabilities, i, unique, seen_types) ==
    unique \o SubSeq(vulnerabilities, i, Len(vulnerabilities))

\* `for vuln in vulnerabilities`, from the i-th finding on
RECURSIVE DedupLoop(_, _, _, _)
DedupLoop(vulnerabilities, i, unique, seen_types) ==
    IF i > Len(vulnerabilities) THEN unique
    ELSE IF vulnerabilities[i].type \notin seen_types
    THEN DedupLoop(vulnerabilities, i + 1, Append(unique, vulnerabilities[i]),
                   seen_types \cup {vulnerabilities[i].type})
    ELSE DedupLoop(vulnerabilities, i + 1, unique, seen_types)

\* the findings print_results goes on to count, show and export; for an empty
\* list it returns at once and shows none
print_results(vulnerabilities) ==
    IF Len(vulnerabilities) = 0 THEN <<>>
    ELSE DedupLoop(vulnerabilities, 1, <<>>, {})

(***************************************************************************)
(* The scan endpoints                                                      *)
(***************************************************************************)
\* the endpoint answers 200 for every outcome of the analyzer
scan_answer_always_ok(exc, text, vulnerabilities) ==
    [status |-> 200, body |-> vulnerabilities]

\* try: return scanner.analyze_...(...)
\* except Exception as e: raise HTTPException(status_code=500, detail=str(e))
scan_answer(exc, text, vulnerabilities) ==
    IF exc = "none" THEN [status |-> 200, body |-> vulnerabilities]
    ELSE [status |-> 500, detail |-> text]

(***************************************************************************)
(* The inputs explored.                                                    *)
(***************************************************************************)
RECURSIVE Concat(_)
Concat(ss) == IF ss = <<>> THEN <<>> ELSE Head(ss) \o Concat(Tail(ss))

\* '\n'.join(ls)
RECURSIVE Join(_)
Join(ls) ==
    IF Len(ls) = 1 THEN ls[1] ELSE ls[1] \o <<"\n">> \o Join(Tail(ls))

SeqsUpTo(S, lo, hi) == UNION {[1..n -> S] : n \in lo..hi}

\* a line is a statement followed by a comment
Statements ==
    {<<>>,
     <<"U","P","D","A","T","E"," ","t"," ","S","E","T"," ">>,
     <<"e","v","a","l","(">>}

Comments ==
    {<<>>,
     <<"P","r","e","p","a","r","e">>,
     <<"E","s","c","a","p","e">>,
     <<"a","p","i","_","k","e","y"," ","d","e","b","u","g","=","t","r","u","e">>}

ExampleLines ==
    {<<"q","u","e","r","y"," ","="," ","\"","S","E","L","E","C","T"," ","*"," ","F","R","O","M"," ","u","s","e","r","s"," ","W","H","E","R","E"," ","i","d","=","\""," ","+"," ","u","s","e","r","_","i","d">>,
     <<"p","a","s","s","w","o","r","d"," ","<","s","c","r","i","p","t",">">>,
     <<"i","n","s","e","r","t"," ","i","n","t","o"," ","t"," ","-","-"," ","P","A","R","A","M","E","T","E","R","I","Z","E","D">>,
     <<"o","n","l","o","a","d","=","s","a","n","i","t","i","z","e","(","s","e","c","r","e","t","-","k","e","y",","," ","p","a","s","s","w","o","r","d",")">>,
     <<"U","P","D","A","T","E"," ","t"," ","S","E","T"," ","x","=","e","v","a","l","(","J","W","T","_","S","E","C","R","E","T",")">>}

CodeLines ==
    {st \o cm : st \in Statements, cm \in Comments} \cup ExampleLines

CodeInputs == {Join(ls) : ls \in SeqsUpTo(CodeLines, 1, MaxLines)}

UrlInputs ==
    {p \o h : p \in {<<"h","t","t","p",":","/","/">>,
                     <<"h","t","t","p","s",":","/","/">>,
                     <<"H","T","T","P",":","/","/">>,
                     <<"f","t","p",":","/","/">>,
                     <<>>},
              h \in {<<"a",".","i","o">>,
                     <<"n","o","t"," ","a"," ","u","r","l">>,
                     <<>>}}

ExampleLog ==
    <<"a","\n","b","\n",".",".","/",".",".","/","e","t","c","\n">>

LogInputs ==
    SeqsUpTo({".", "\n", "a"}, 0, MaxLogLen) \cup {ExampleLog}

\* lists of findings handed to print_results: the i-th finding is told from
\* the others by its location
FindingLists ==
    {[i \in 1..Len(ts) |->
        [type |-> ts[i], risk_level |-> "Low", description |-> "",
         location |-> <<"L","i","n","e"," ">> \o ToStr(i)]] :
     ts \in SeqsUpTo({"A", "B", "C"}, 0, MaxFindings)}

\* an error raised inside an analyzer that none of its clauses handles
UnexpectedError == [exc |-> "RuntimeError", text |-> "internal error"]

(***************************************************************************)
(* The scanner object and the calls made on it.                            *)
(***************************************************************************)
NoAnswer == [status |-> 0]

Init ==
    /\ patterns = PatternTable
    /\ pc = "idle"
    /\ call = "none"
    /\ arg = <<>>
    /\ response = NoResponse
    /\ get_count = 0
    /\ result = <<>>
    /\ raised = "none"
    /\ error = ""
    /\ http = NoAnswer
    /\ unique_vulnerabilities = <<>>
    /\ frames = <<>>

Analyzers == {"analyze_code", "analyze_url", "analyze_logs"}

\* the calls a caller can make
Calls ==
    {[call |-> "analyze_code", arg |-> code] : code \in CodeInputs}
    \cup {[call |-> "analyze_url", arg |-> url] : url \in UrlInputs}
    \cup {[call |-> "analyze_logs", arg |-> logs] : logs \in LogInputs}
    \cup {[call |-> "print_results", arg |-> fs] : fs \in FindingLists}

\* a caller (an endpoint or a button of the page) calls a method of the
\* scanner with its input
Call ==
    /\ pc = "idle"
    /\ \E c \in Calls :
         /\ call' = c.call
         /\ arg' = c.arg
    /\ pc' = "pending"
    /\ UNCHANGED <<patterns, response, get_count, result, raised, error, http,
                   unique_vulnerabilities, frames>>

\* scanner.analyze_code(code) runs
AnalyzeCode ==
    /\ pc = "pending"
    /\ call = "analyze_code"
    /\ result' = analyze_code(patterns, arg)
    /\ pc' = "done"
    /\ UNCHANGED <<patterns, call, arg, response, get_count, raised, error, http,
                   unique_vulnerabilities, frames>>

\* scanner.analyze_url(url) runs; the network decides what requests.get does
AnalyzeUrl ==
    /\ pc = "pending"
    /\ call = "analyze_url"
    /\ \E r \in Outcomes(arg) :
         LET out == analyze_url(arg, r) IN
         /\ result' = out.vulnerabilities
         /\ get_count' = get_count + out.gets
         /\ response' = out.response
         /\ raised' = out.raised
         /\ error' = (IF out.raised = "none" THEN "" ELSE r.text)
         /\ pc' = (IF out.raised = "none" THEN "done" ELSE "raised")
    /\ UNCHANGED <<patterns, call, arg, http, unique_vulnerabilities, frames>>

\* scanner.analyze_logs(logs) runs
AnalyzeLogs ==
    /\ pc = "pending"
    /\ call = "analyze_logs"
    /\ result' = analyze_logs(arg)
    /\ pc' = "done"
    /\ UNCHANGED <<patterns, call, arg, response, get_count, raised, error, http,
                   unique_vulnerabilities, frames>>

\* an analyzer raises an error it does not handle and returns no list; in
\* analyze_url the only calls outside the try block are validators.url and
\* the return of the Invalid URL list, so the error is raised inside it, by a
\* statement reached with a valid URL, and no except clause names it
AnalyzerFault ==
    /\ pc = "pending"
    /\ call \in Analyzers
    /\ call = "analyze_url" => validators_url(arg)
    /\ LET r == [kind |-> "raise", exc |-> UnexpectedError.exc,
                 text |-> UnexpectedError.text]
           out == IF call = "analyze_url" THEN analyze_url(arg, r)
                  ELSE [vulnerabilities |-> <<>>, gets |-> 0,
                        response |-> NoResponse, raised |-> r.exc]
       IN
       /\ out.raised # "none"
       /\ raised' = out.raised
       /\ error' = r.text
       /\ get_count' = get_count + out.gets
       /\ response' = out.response
    /\ pc' = "raised"
    /\ UNCHANGED <<patterns, call, arg, result, http,
                   unique_vulnerabilities, frames>>

\* scan_code / scan_url / scan_logs answer the request with what the analyzer
\* returned or raised
Respond ==
    /\ pc \in {"done", "raised"}
    /\ call \in Analyzers
    /\ http' = scan_answer(raised, error, result)
    /\ pc' = "responded"
    /\ UNCHANGED <<patterns, call, arg, response, get_count, result, raised,
                   error, unique_vulnerabilities, frames>>

\* scanner.print_results(vulnerabilities) runs, on the list an analyzer
\* returned to the page or on the list it was called with
PrintResults ==
    /\ \/ pc = "done" /\ call \in Analyzers
       \/ pc = "pending" /\ call = "print_results"
    /\ unique_vulnerabilities' =
          print_results(IF call = "print_results" THEN arg ELSE result)
    /\ pc' = "printed"
    /\ UNCHANGED <<patterns, call, arg, response, get_count, result, raised,
                   error, http, frames>>

\* the caller is done with the call; nothing of it is kept
Return ==
    /\ pc \in {"done", "raised", "responded", "printed"}
    /\ pc' = "idle"
    /\ call' = "none"
    /\ arg' = <<>>
    /\ response' = NoResponse
    /\ get_count' = 0
    /\ result' = <<>>
    /\ raised' = "none"
    /\ error' = ""
    /\ http' = NoAnswer
    /\ unique_vulnerabilities' = <<>>
    /\ UNCHANGED <<patterns, frames>>

Next ==
    \/ Call
    \/ AnalyzeCode
    \/ AnalyzeUrl
    \/ AnalyzeLogs
    \/ AnalyzerFault
    \/ Respond
    \/ PrintResults
    \/ Return

Spec == Init /\ [][Next]_vars

(***************************************************************************)
(* Properties of analyze_code.                                             *)
(***************************************************************************)
\* analyze_code has returned
CodeDone == pc = "done" /\ call = "analyze_code"

\* the text `Line n`
LineText(n) == <<"L","i","n","e"," ">> \o ToStr(n)

\* the lines of the analyzed code
CodeLinesOf == Split(arg)

\* the finding type each category reports
TypeOfCategory ==
    [sql_injection |-> "SQL Injection", xss |-> "Cross-Site Scripting (XSS)",
     exposed_secrets |-> "Exposed Secrets",
     insecure_configs |-> "Security Misconfiguration"]

\* the positions in the result of the findings of a category at line n
FindingsAt(cat, n) ==
    {i \in 1..Len(result) :
        result[i].type = TypeOfCategory[cat] /\ result[i].location = LineText(n)}

\* w occurs in the line in some mix of upper and lower case
HasWord(line, w) == \E i \in 1..Len(line) : LitAt(w, line, i)

\* the line carries a mitigation keyword of the category
Mitigated(cat, line) ==
    \/ /\ cat = "sql_injection"
       /\ \/ HasWord(line, <<"p","a","r","a","m","e","t","e","r","i","z","e","d">>)
          \/ HasWord(line, <<"p","r","e","p","a","r","e">>)
    \/ /\ cat = "xss"
       /\ \/ HasWord(line, <<"e","s","c","a","p","e">>)
          \/ HasWord(line, <<"s","a","n","i","t","i","z","e">>)

\* the line matches some pattern of the category
Matches(cat, line) == AnyPattern(PatternTable[cat], line)

\* C1: every finding of analyze_code has location `Line n` with n a 1-based
\* line number, 1 <= n <= the number of lines of the input split on newline.
C1_LocationInRange ==
    CodeDone =>
      \A i \in 1..Len(result) :
         \E n \in 1..Len(CodeLinesOf) : result[i].location = LineText(n)

\* C1 witness: a two-line input with a finding on its second (last) line.
C1_Witness ==
    /\ CodeDone
    /\ Len(CodeLinesOf) = 2
    /\ \E i \in 1..Len(result) : result[i].location = LineText(2)

C3_OnePerLineAndCategory ==
    CodeDone =>
      \A n \in 1..Len(CodeLinesOf) :
         \A cat \in DOMAIN PatternTable :
            Cardinality(FindingsAt(cat, n)) =
               (IF Matches(cat, CodeLinesOf[n]) THEN 1 ELSE 0)

\* C3 amended: every (line, category) has exactly one finding when the line
\* matches a pattern of the category and carries none of its mitigation
\* keywords, and no finding otherwise; the result holds nothing else.
C3_OnePerUnmitigatedMatch ==
    CodeDone =>
      /\ \A n \in 1..Len(CodeLinesOf) :
            \A cat \in DOMAIN PatternTable :
               Cardinality(FindingsAt(cat, n)) =
                  (IF Matches(cat, CodeLinesOf[n]) /\ ~Mitigated(cat, CodeLinesOf[n])
                   THEN 1 ELSE 0)
      /\ \A i \in 1..Len(result) :
            \E n \in 1..Len(CodeLinesOf) :
               \E cat \in DOMAIN PatternTable : i \in FindingsAt(cat, n)

\* the number of patterns of the category that match the line
PatternsMatching(cat, line) ==
    Cardinality({k \in 1..Len(PatternTable[cat]) : Search(PatternTable[cat][k], line)})

\* C3 witness: a line matching exactly two categories, neither mitigated,
\* reports two findings, and a line matching two patterns of one category
\* reports one finding for it.
C3_Witness ==
    /\ CodeDone
    /\ \E n \in 1..Len(CodeLinesOf) :
          /\ {cat \in DOMAIN PatternTable : Matches(cat, CodeLinesOf[n])}
                = {"xss", "exposed_secrets"}
          /\ ~Mitigated("xss", CodeLinesOf[n])
          /\ Cardinality({i \in 1..Len(result) : result[i].location = LineText(n)}) = 2
    /\ \E n \in 1..Len(CodeLinesOf) :
          /\ PatternsMatching("exposed_secrets", CodeLinesOf[n]) >= 2
          /\ Cardinality(FindingsAt("exposed_secrets", n)) = 1

\* the position of a finding's category in the order of the passes
PassRank(f) ==
    CHOOSE k \in 1..Len(CategoryOrder) : TypeOfCategory[CategoryOrder[k]] = f.type

\* the line number a finding's location names
LineNumberOf(f) ==
    CHOOSE n \in 1..Len(CodeLinesOf) : f.location = LineText(n)

\* C4: the findings come in the order of the passes (SQL Injection, XSS,
\* Exposed Secrets, Security Misconfiguration) and, within one category, in
\* strictly ascending line number.
C4_PassThenLineOrder ==
    CodeDone =>
      \A i \in 1..Len(result) : \A j \in 1..Len(result) :
         i < j =>
           \/ PassRank(result[i]) < PassRank(result[j])
           \/ /\ PassRank(result[i]) = PassRank(result[j])
              /\ LineNumberOf(result[i]) < LineNumberOf(result[j])

\* C4 witness: findings of all four categories, two of them SQL Injection
\* findings on different lines.
C4_Witness ==
    /\ CodeDone
    /\ {result[i].type : i \in 1..Len(result)}
          = {TypeOfCategory[cat] : cat \in DOMAIN PatternTable}
    /\ FindingsAt("sql_injection", 1) # {}
    /\ FindingsAt("sql_injection", 2) # {}

(***************************************************************************)
(* Properties of analyze_url.                                              *)
(***************************************************************************)
\* analyze_url has returned
UrlDone == pc = "done" /\ call = "analyze_url"

\* analyze_url has returned after requests.get gave a response
UrlAnswered == UrlDone /\ response.kind = "ok"

\* C5: for a URL that is not well-formed the result is exactly one finding,
\* Invalid URL / Low, and no request was issued during the call.
C5_InvalidUrl ==
    UrlDone /\ ~validators_url(arg) =>
      /\ Len(result) = 1
      /\ result[1].type = "Invalid URL"
      /\ result[1].risk_level = "Low"
      /\ get_count = 0
      /\ response = NoResponse

\* C5 witness: the call with `not a url` returned its Invalid URL finding.
C5_Witness ==
    /\ UrlDone
    /\ arg = <<"n","o","t"," ","a"," ","u","r","l">>
    /\ Len(result) = 1
    /\ result[1].type = "Invalid URL"
    /\ get_count = 0

TrackedHeaders ==
    {<<"S","t","r","i","c","t","-","T","r","a","n","s","p","o","r","t","-","S","e","c","u","r","i","t","y">>,
     <<"X","-","C","o","n","t","e","n","t","-","T","y","p","e","-","O","p","t","i","o","n","s">>,
     <<"X","-","F","r","a","m","e","-","O","p","t","i","o","n","s">>,
     <<"C","o","n","t","e","n","t","-","S","e","c","u","r","i","t","y","-","P","o","l","i","c","y">>}

\* the response carries the header (header names do not distinguish case)
Present(h) ==
    \E k \in response.headers : Len(k) = Len(h) /\ LitAt(h, k, 1)

\* the positions of the Missing Security Headers findings
MissingHeaderFindings ==
    {i \in 1..Len(result) : result[i].type = "Missing Security Headers"}

\* the fix text that names header h
FixNaming(h) ==
    <<"A","d","d"," ","t","h","e"," ">> \o h
    \o <<" ","h","e","a","d","e","r"," ","t","o"," ","y","o","u","r"," ","s","e","r","v","e","r"," ","r","e","s","p","o","n","s","e","s">>

\* C7: for a response, each tracked header that is absent has exactly one
\* Missing Security Headers / Medium finding whose fix names it, a header
\* that is present has none, and there are no other such findings.
C7_MissingHeaders ==
    UrlAnswered =>
      /\ \A h \in TrackedHeaders :
            Cardinality({i \in MissingHeaderFindings : result[i].fix = FixNaming(h)})
               = (IF Present(h) THEN 0 ELSE 1)
      /\ \A i \in MissingHeaderFindings :
            /\ result[i].risk_level = "Medium"
            /\ \E h \in TrackedHeaders : result[i].fix = FixNaming(h)

\* C7 witness: a response with none of the four headers got four findings.
C7_Witness ==
    /\ UrlAnswered
    /\ \A h \in TrackedHeaders : ~Present(h)
    /\ Cardinality(MissingHeaderFindings) = 4

\* the URL's scheme is w (schemes do not distinguish case)
HasScheme(url, w) == LitAt(w \o <<":","/","/">>, url, 1)

\* C8: for a response, the result ends with exactly one Insecure Protocol /
\* High finding, after all header findings, when the URL's scheme is http,
\* and holds no such finding when the scheme is https.
C8_InsecureProtocol ==
    UrlAnswered =>
      LET proto == {i \in 1..Len(result) : result[i].type = "Insecure Protocol"} IN
      /\ HasScheme(arg, <<"h","t","t","p">>) =>
            /\ proto = {Len(result)}
            /\ result[Len(result)].risk_level = "High"
      /\ HasScheme(arg, <<"h","t","t","p","s">>) => proto = {}

(***************************************************************************)
(* Properties of analyze_logs.                                             *)
(***************************************************************************)
\* analyze_logs has returned
LogsDone == pc = "done" /\ call = "analyze_logs"

\* C9: the findings are those of the matches in order, and each location is
\* `Line n: <matched text>` with n one more than the number of newlines
\* before the start of the match; for the text whose third line holds the
\* two `..`, after two one-character lines, n is 3.
C9_MatchLocation ==
    LogsDone =>
      LET ms == Finditer(TraversalPattern, arg, 1) IN
      /\ Len(result) = Len(ms)
      /\ \A i \in 1..Len(result) :
            result[i].location =
               LineText(1 + Cardinality({k \in 1..(ms[i].start - 1) : arg[k] = "\n"}))
               \o <<":", " ">> \o SubSeq(arg, ms[i].start, ms[i].end - 1)
      /\ arg = ExampleLog =>
            /\ Len(result) = 1
            /\ result[1].location =
                 <<"L","i","n","e"," ","3",":"," ",".",".","/",".",".">>

\* C9 witness: the example text was analyzed and its match is on line 3.
C9_Witness ==
    /\ LogsDone
    /\ arg = ExampleLog
    /\ Len(result) = 1
    /\ result[1].location = <<"L","i","n","e"," ","3",":"," ",".",".","/",".",".">>

\* the number of `..` in s from position i on, counted left to right without
\* overlap
RECURSIVE DotDotCount(_, _)
DotDotCount(s, i) ==
    IF i + 1 > Len(s) THEN 0
    ELSE IF s[i] = "." /\ s[i + 1] = "." THEN 1 + DotDotCount(s, i + 2)
    ELSE DotDotCount(s, i + 1)

\* the number of pairs of `..` within the lines, line by line
RECURSIVE PairsWithinLines(_)
PairsWithinLines(lines) ==
    IF lines = <<>> THEN 0
    ELSE (DotDotCount(Head(lines), 1) \div 2) + PairsWithinLines(Tail(lines))

\* every finding is a Directory Traversal / High finding
AllTraversal ==
    \A i \in 1..Len(result) :
       result[i].type = "Directory Traversal" /\ result[i].risk_level = "High"

\* C10 as stated: one Directory Traversal / High finding for every
\* non-overlapping occurrence in the whole text of two `..` separated by
\* arbitrary characters, and none when there is no such occurrence.
C10_PairsInWholeText ==
    LogsDone =>
      /\ AllTraversal
      /\ Len(result) = DotDotCount(arg, 1) \div 2

\* C10 amended: one Directory Traversal / High finding for every
\* non-overlapping occurrence of two `..` separated by characters other than
\* newline, that is, within one line of the text, and none when no line
\* holds such an occurrence.
C10_PairsWithinLines ==
    LogsDone =>
      /\ AllTraversal
      /\ Len(result) = PairsWithinLines(Split(arg))

\* C10 witness: a text with two non-overlapping occurrences got two findings.
C10_Witness ==
    /\ LogsDone
    /\ DotDotCount(arg, 1) = 4
    /\ Len(result) = 2

(***************************************************************************)
(* Properties of print_results.                                            *)
(***************************************************************************)
\* print_results has removed the duplicates of the list it was given
Printed == pc = "printed"

\* the list print_results was given
PrintedInput == IF call = "print_results" THEN arg ELSE result

\* the types of the findings of a list, in order
TypesOf(fs) == [i \in 1..Len(fs) |-> fs[i].type]

\* the positions in the given list of the first finding of each type
FirstOfType ==
    {i \in 1..Len(PrintedInput) :
        \A j \in 1..(i - 1) : PrintedInput[j].type # PrintedInput[i].type}

\* C11: the de-duplicated list is the given list restricted to the first
\* finding of each type, in the given order: it holds one finding per type,
\* every type of the given list appears in it, and types [A,B,A,C,B] become
\* [A,B,C].
C11_FirstPerType ==
    Printed =>
      LET V == PrintedInput
          U == unique_vulnerabilities
      IN
      /\ Len(U) = Cardinality(FirstOfType)
      /\ \A k \in 1..Len(U) :
            LET i == CHOOSE i \in FirstOfType :
                        Cardinality({j \in FirstOfType : j <= i}) = k
            IN U[k].type = V[i].type /\ U[k] = V[i]
      /\ \A k \in 1..Len(U) : \A l \in 1..Len(U) :
            k # l => U[k].type # U[l].type
      /\ {U[k].type : k \in 1..Len(U)} = {V[i].type : i \in 1..Len(V)}
      /\ TypesOf(V) = <<"A", "B", "A", "C", "B">> => TypesOf(U) = <<"A", "B", "C">>

\* C11 witness: the list of types [A,B,A,C,B] was reduced to [A,B,C], its
\* first, second and fourth finding.
C11_Witness ==
    /\ Printed
    /\ call = "print_results"
    /\ TypesOf(arg) = <<"A", "B", "A", "C", "B">>
    /\ unique_vulnerabilities = <<arg[1], arg[2], arg[4]>>

(***************************************************************************)
(* Properties of the scan endpoints.                                       *)
(***************************************************************************)
\* an endpoint has answered its request
Responded == pc = "responded" /\ call \in Analyzers

\* the URL analyzer met a malformed URL, or requests.get failed with a
\* network or TLS error
UrlFailure ==
    /\ call = "analyze_url"
    /\ \/ ~validators_url(arg)
       \/ /\ response.kind = "raise"
          /\ response.exc \in {"SSLError", "ConnectionError", "Timeout"}

\* C12: an endpoint answers 200 with the analyzer's list when the analyzer
\* returned and 500 with the error's text as detail when it raised; a
\* malformed URL, a network failure and a TLS failure of the URL analyzer
\* are answered 200 with a list holding a finding, never 500.
C12_EndpointStatus ==
    Responded =>
      /\ raised = "none" => http.status = 200 /\ http.body = result
      /\ raised # "none" => http.status = 500 /\ http.detail = error
      /\ UrlFailure => http.status = 200 /\ Len(http.body) >= 1

\* C12 witness: an analyzer raised and its endpoint answered 500 with the
\* error's text.
C12_Witness ==
    /\ Responded
    /\ raised = UnexpectedError.exc
    /\ http = [status |-> 500, detail |-> UnexpectedError.text]

(***************************************************************************)
(* Concurrent calls on the shared scanner object.  Each call runs in its   *)
(* own frame (its parameters and local variables); the scanner object,     *)
(* and with it `patterns`, is shared.  A step of a call is one iteration   *)
(* of the loop it is in: the iteration reads self.patterns and the frame   *)
(* and writes the frame's `vulnerabilities`.                               *)
(***************************************************************************)
Procs == {"c1", "c2"}

\* the lines of the code handed to the concurrent calls
ConcLines ==
    {<<"p","a","s","s","w","o","r","d"," ","<","s","c","r","i","p","t",">">>,
     <<"U","P","D","A","T","E"," ","t"," ","S","E","T"," ","x","=","e","v","a","l","(","J","W","T","_","S","E","C","R","E","T",")">>}

ConcCalls ==
    {[call |-> "analyze_code", arg |-> Join(ls)] :
        ls \in SeqsUpTo(ConcLines, 1, Cardinality(ConcLines))}
    \cup {[call |-> "analyze_logs", arg |-> logs] :
        logs \in {ExampleLog,
                  <<".",".",".",".","\n",".",".","a",".",".">>}}

\* no call in progress
IdleFrame ==
    [pc |-> "idle", call |-> "none", arg |-> <<>>, lines |-> <<>>,
     category |-> 0, line_number |-> 0, pos |-> 0, vulnerabilities |-> <<>>,
     overlapped |-> FALSE]

\* the frame of a call at its first loop: vulnerabilities = [], the code split
\* into lines, the iterator of re.finditer at the start of the text
StartFrame(c, overlapped) ==
    [pc |-> "running", call |-> c.call, arg |-> c.arg,
     lines |-> IF c.call = "analyze_code" THEN Split(c.arg) ELSE <<>>,
     category |-> 1, line_number |-> 0, pos |-> 1, vulnerabilities |-> <<>>,
     overlapped |-> overlapped]

\* the loops of the call are exhausted
LoopsDone(f) == f.category > Len(CategoryOrder)

\* an iteration that takes the pattern it has tried out of the rule table
analyze_code_step_consuming(table, f) ==
    LET cat == CategoryOrder[f.category] IN
    IF f.line_number < Len(f.lines)
    THEN [patterns |-> [table EXCEPT ![cat] = IF Len(@) > 1 THEN Tail(@) ELSE @],
          frame |-> [f EXCEPT !.vulnerabilities =
                                 @ \o LineFindings(table, cat, f.line_number,
                                                   f.lines[f.line_number + 1]),
                              !.line_number = @ + 1]]
    ELSE [patterns |-> table,
          frame |-> [f EXCEPT !.category = @ + 1, !.line_number = 0]]

\* one iteration of the `for line_number, line in enumerate(lines)` loop the
\* call is in, or the move to the next loop when the lines are exhausted:
\* the rule table is read, the frame's list is appended to
analyze_code_step(table, f) ==
    LET cat == CategoryOrder[f.category] IN
    IF f.line_number < Len(f.lines)
    THEN [patterns |-> table,
          frame |-> [f EXCEPT !.vulnerabilities =
                                 @ \o LineFindings(table, cat, f.line_number,
                                                   f.lines[f.line_number + 1]),
                              !.line_number = @ + 1]]
    ELSE [patterns |-> table,
          frame |-> [f EXCEPT !.category = @ + 1, !.line_number = 0]]

\* the dictionary analyze_logs appends for a match
LogFinding(logs, m) ==
    [type |-> "Directory Traversal", risk_level |-> "High",
     description |-> "Suspicious pattern detected in logs indicating potential directory traversal attack.",
     fix |-> "Implement input validation and WAF rules",
     location |-> LogLocation(logs, m)]

\* one iteration of `for match in matches`: the iterator yields the next
\* match from its position on, or is exhausted
analyze_logs_step(f) ==
    LET matches == Finditer(TraversalPattern, f.arg, f.pos) IN
    IF matches = <<>>
    THEN [f EXCEPT !.category = Len(CategoryOrder) + 1]
    ELSE LET m == matches[1] IN
         [f EXCEPT !.vulnerabilities = Append(@, LogFinding(f.arg, m)),
                   !.pos = IF m.end = m.start THEN m.end + 1 ELSE m.end]

InitConc ==
    /\ patterns = PatternTable
    /\ pc = "idle"
    /\ call = "none"
    /\ arg = <<>>
    /\ response = NoResponse
    /\ get_count = 0
    /\ result = <<>>
    /\ raised = "none"
    /\ error = ""
    /\ http = NoAnswer
    /\ unique_vulnerabilities = <<>>
    /\ frames = [p \in Procs |-> IdleFrame]

\* a request arrives while the scanner may be serving another: the call
\* starts in a frame of its own
ConcCall(p) ==
    /\ frames[p].pc = "idle"
    /\ \E c \in ConcCalls :
         LET others == {q \in Procs \ {p} : frames[q].pc = "running"} IN
         frames' = [q \in Procs |->
                      IF q = p THEN StartFrame(c, others # {})
                      ELSE IF q \in others
                      THEN [frames[q] EXCEPT !.overlapped = TRUE]
                      ELSE frames[q]]
    /\ UNCHANGED <<patterns, pc, call, arg, response, get_count, result,
                   raised, error, http, unique_vulnerabilities>>

\* a call of analyze_code takes a step
ConcCodeStep(p) ==
    /\ frames[p].pc = "running"
    /\ frames[p].call = "analyze_code"
    /\ ~LoopsDone(frames[p])
    /\ LET step == analyze_code_step(patterns, frames[p]) IN
       /\ patterns' = step.patterns
       /\ frames' = [frames EXCEPT ![p] = step.frame]
    /\ UNCHANGED <<pc, call, arg, response, get_count, result, raised, error,
                   http, unique_vulnerabilities>>

\* a call of analyze_logs takes a step
ConcLogsStep(p) ==
    /\ frames[p].pc = "running"
    /\ frames[p].call = "analyze_logs"
    /\ ~LoopsDone(frames[p])
    /\ frames' = [frames EXCEPT ![p] = analyze_logs_step(frames[p])]
    /\ UNCHANGED <<patterns, pc, call, arg, response, get_count, result,
                   raised, error, http, unique_vulnerabilities>>

\* `return vulnerabilities`
ConcReturn(p) ==
    /\ frames[p].pc = "running"
    /\ LoopsDone(frames[p])
    /\ frames' = [frames EXCEPT ![p].pc = "returned"]
    /\ UNCHANGED <<patterns, pc, call, arg, response, get_count, result,
                   raised, error, http, unique_vulnerabilities>>

NextConc ==
    \/ \E p \in Procs : ConcCall(p)
    \/ \E p \in Procs : ConcCodeStep(p)
    \/ \E p \in Procs : ConcLogsStep(p)
    \/ \E p \in Procs : ConcReturn(p)

SpecConc == InitConc /\ [][NextConc]_vars

(***************************************************************************)
(* Properties of concurrent and repeated calls.                            *)
(***************************************************************************)
\* what a call returns when it runs alone on a scanner as constructed
Alone(c, input) ==
    IF c = "analyze_code" THEN analyze_code(PatternTable, input)
    ELSE analyze_logs(input)

Returned(p) == frames[p].pc = "returned"

\* C13: the rule table stays as constructed; under every interleaving of
\* analyze_code and analyze_logs calls each call returns the list it returns
\* when run alone, and two calls of the same analyzer on the same input
\* return the same list.
C13_CallsIndependent ==
    /\ patterns = PatternTable
    /\ \A p \in Procs :
          Returned(p) =>
             frames[p].vulnerabilities = Alone(frames[p].call, frames[p].arg)
    /\ \A p \in Procs : \A q \in Procs :
          (/\ Returned(p) /\ Returned(q)
           /\ frames[p].call = frames[q].call
           /\ frames[p].arg = frames[q].arg)
          => frames[p].vulnerabilities = frames[q].vulnerabilities

\* C13 witness: a call of analyze_code and a call of analyze_logs that ran
\* at the same time have both returned findings.
C13_Witness ==
    /\ Returned("c1") /\ Returned("c2")
    /\ frames["c1"].overlapped /\ frames["c2"].overlapped
    /\ frames["c1"].call = "analyze_code"
    /\ frames["c2"].call = "analyze_logs"
    /\ Len(frames["c1"].vulnerabilities) > 1
    /\ Len(frames["c2"].vulnerabilities) > 1

====
